---- MODULE Spec2Model ----
(***************************************************************************)
(* Brick Art Publisher: the first submit handler of src/api/submit.js      *)
(* (REST attachment + polling variant, lines 5-224), run against a         *)
(* nondeterministic platform (file store, article store); the other        *)
(* handlers of the repository (src/unnamed/part_003, part_004, part_007,   *)
(* the later handlers of src/api/submit.js, src/api/email-image.js,        *)
(* src/api/email-design.js), one invocation at a time, in the variable     *)
(* run.                                                                    *)
(*                                                                         *)
(* Strings that the handler rewrites are sequences of one-character        *)
(* strings; a JS value is either Undefined or Str(s).                      *)
(***************************************************************************)
EXTENDS Integers, Sequences, FiniteSets, TLC

\* ------------------------------------------------------------------ bounds
\* Longest file listing the platform answers a poll with.
MaxList == 2
\* Longest string esc is applied to on its own.
MaxLen == 3
\* Most chunks a request stream yields
MaxChunks == 3

\* ------------------------------------------------------- program constants
\* for (let i = 0; i < 10 && !url; i++)
MaxPolls == 10

Inv == {1, 2}
Slots == {"clean", "logo"}
EnvKeys == {"SHOPIFY_STORE_DOMAIN", "SHOPIFY_ADMIN_API_TOKEN", "BLOG_ID"}
Methods == {"POST", "GET", "OPTIONS"}

\* ------------------------------------------------------------- JS values
Undefined == [undef |-> TRUE]
Str(s) == [str |-> s]
Null == [null |-> TRUE]
IsStr(v) == "str" \in DOMAIN v
\* JS truthiness of a value that is undefined, null or a string.
Truthy(v) == IsStr(v) /\ v.str # <<>>
\* a || b
OrElse(v, d) == IF Truthy(v) THEN v ELSE d
\* String(v)
String(v) ==
    IF IsStr(v) THEN v.str ELSE <<"u", "n", "d", "e", "f", "i", "n", "e", "d">>

Digits == {"0", "1", "2"}
LowerCase == {"a", "b", "c", "d", "e", "f", "g", "i", "l", "n", "o", "p", "s", "t", "u"}
UpperCase == {"A", "B", "T"}
ToLower(c) == CASE c = "A" -> "a" [] c = "B" -> "b" [] c = "T" -> "t" [] OTHER -> c

\* String(timestamp).replace(/[^\dA-Za-z]/g, "")
IsAlnum(c) == c \in Digits \cup LowerCase \cup UpperCase
StripNonAlnum(s) == SelectSeq(s, IsAlnum)

\* s.toLowerCase()
LowerSeq(s) == [k \in 1..Len(s) |-> ToLower(s[k])]

\* s.replace(/[^a-z0-9]+/g, "-"): every maximal run of other characters
\* becomes one dash.
IsSlugChar(c) == c \in Digits \cup LowerCase
RECURSIVE DashRuns(_, _)
DashRuns(s, inRun) ==
    IF s = <<>> THEN <<>>
    ELSE IF IsSlugChar(Head(s)) THEN <<Head(s)>> \o DashRuns(Tail(s), FALSE)
    ELSE IF inRun THEN DashRuns(Tail(s), TRUE)
    ELSE <<"-">> \o DashRuns(Tail(s), TRUE)

Student == <<"s", "t", "u", "d", "e", "n", "t">>
\* const safe = `${...timestamp...}-${...nickname || "student"...}`
SafeName(timestamp, nickname) ==
    StripNonAlnum(String(timestamp)) \o <<"-">>
        \o DashRuns(LowerSeq(String(OrElse(nickname, Str(Student)))), FALSE)

SlotSuffix(s) ==
    IF s = "clean" THEN <<"-", "c", "l", "e", "a", "n", ".", "p", "n", "g">>
    ELSE <<"-", "l", "o", "g", "o", ".", "p", "n", "g">>

\* `${safe}-clean.png` / `${safe}-logo.png`
FileName(body, s) == SafeName(body.timestamp, body.nickname) \o SlotSuffix(s)

\* hay.includes(needle)
Includes(hay, needle) ==
    \E k \in 0..(Len(hay) - Len(needle)) :
        SubSeq(hay, k + 1, k + Len(needle)) = needle

\* const esc = (s = "") => String(s).replace(/[&<>"]/g, ...)
EscChar(c) ==
    CASE c = "&" -> <<"&", "a", "m", "p", ";">>
      [] c = "<" -> <<"&", "l", "t", ";">>
      [] c = ">" -> <<"&", "g", "t", ";">>
      [] c = "\"" -> <<"&", "q", "u", "o", "t", ";">>
      [] OTHER -> <<c>>
RECURSIVE esc(_)
esc(s) == IF s = <<>> THEN <<>> ELSE EscChar(Head(s)) \o esc(Tail(s))

\* ---------------------------------------------------------------- requests
NoReq == [method |-> "none"]

A1 == <<"1", ":", "2">>
NickAB == <<"A", "<", " ", "b">>
Png == <<"p", "n", "g">>
Mail1 == <<"a", "@", "b">>

TimestampVals == {Undefined, Str(<<>>), Str(A1)}
NicknameVals == {Undefined, Str(NickAB)}
ImageVals == {Undefined, Str(<<>>), Str(Png)}
EmailVals == {Undefined, Str(Mail1)}

\* req.body after "typeof req.body === 'string' ? JSON.parse(req.body) :
\* (req.body || {})"; badJson: the body is a string JSON.parse rejects.
Bodies ==
    [badJson : {FALSE}, timestamp : TimestampVals, nickname : NicknameVals,
     imageClean_b64 : ImageVals, imageLogo_b64 : ImageVals,
     submitterEmail : EmailVals]
    \cup
    [badJson : {TRUE}, timestamp : {Undefined}, nickname : {Undefined},
     imageClean_b64 : {Undefined}, imageLogo_b64 : {Undefined},
     submitterEmail : {Undefined}]

Requests == [method : Methods, body : Bodies]

Image(body, s) == IF s = "clean" THEN body.imageClean_b64 ELSE body.imageLogo_b64

\* ------------------------------------------------------------------- state
VARIABLES
    env,        \* process.env: the set of keys that have a value
    req,        \* req of each invocation (NoReq: the invocation never happens)
    pc,         \* where each invocation of handler stands
    up,         \* the two uploadFile calls of each invocation
    art,        \* the article-creation call of each invocation
    meta,       \* the metafield call of each invocation
    resp,       \* the responses each invocation has sent through res
    files,      \* platform: the file store
    articles,   \* platform: the articles of the blog
    run         \* the invocation of one of the other handlers, or Idle

vars == <<env, req, pc, up, art, meta, resp, files, articles, run>>
\* the state of the first handler of src/api/submit.js and of its platform
first == <<env, req, pc, up, art, meta, resp, files, articles>>

\* no other handler is invoked
Idle == [handler |-> "none"]

NoUpload ==
    [pc |-> "unstarted", rok |-> FALSE, url |-> Null, polls |-> 0, creates |-> 0,
     lists |-> 0, err |-> "none", result |-> Null, held |-> FALSE]
NoArticle ==
    [calls |-> 0, body |-> Null, outcome |-> "none", articleId |-> Undefined,
     bothHandles |-> FALSE, articleUrl |-> Null]
NoMeta == [calls |-> 0, value |-> Undefined, outcome |-> "none"]

\* A file an earlier, identical submission left in the store.
OldFile(name) == [id |-> 0, name |-> name, owner |-> 0]

Valid(r) == r.method = "POST" /\ ~r.body.badJson /\ IsStr(r.body.timestamp)

InitCommon ==
    /\ env \in SUBSET EnvKeys
    /\ pc = [i \in Inv |-> IF req[i] = NoReq THEN "none" ELSE "start"]
    /\ up = [i \in Inv |-> [s \in Slots |-> NoUpload]]
    /\ art = [i \in Inv |-> NoArticle]
    /\ meta = [i \in Inv |-> NoMeta]
    /\ resp = [i \in Inv |-> <<>>]
    /\ articles = {}
    /\ run = Idle

\* One request; the store is empty or holds a file of the same name.
Init ==
    /\ \E r \in Requests :
        /\ req = [i \in Inv |-> IF i = 1 THEN r ELSE NoReq]
        /\ files \in {{}} \cup
              (IF Valid(r) THEN {{OldFile(FileName(r.body, "clean"))}} ELSE {})
    /\ InitCommon

\* ------------------------------------------------------ handler: the head
Send(i, r) == resp' = [resp EXCEPT ![i] = Append(@, r)]

\* if (req.method === "OPTIONS") return res.status(200).end();
RespondOptions(i) ==
    /\ pc[i] = "start"
    /\ req[i].method = "OPTIONS"
    /\ Send(i, [status |-> 200])
    /\ pc' = [pc EXCEPT ![i] = "done"]
    /\ UNCHANGED <<run, env, req, up, art, meta, files, articles>>

\* if (req.method !== "POST") return res.status(405).json(...)
RespondMethodNotAllowed(i) ==
    /\ pc[i] = "start"
    /\ req[i].method \notin {"OPTIONS", "POST"}
    /\ Send(i, [status |-> 405, ok |-> FALSE, error |-> "Method Not Allowed"])
    /\ pc' = [pc EXCEPT ![i] = "done"]
    /\ UNCHANGED <<run, env, req, up, art, meta, files, articles>>

\* requireEnv of the three keys
EnvComplete == EnvKeys \subseteq env

\* requireEnv throws outside the try block: the handler's promise rejects and
\* nothing is sent through res.
MissingEnv(i) ==
    /\ pc[i] = "start"
    /\ req[i].method = "POST"
    /\ ~EnvComplete
    /\ pc' = [pc EXCEPT ![i] = "crashed"]
    /\ UNCHANGED <<run, env, req, up, art, meta, resp, files, articles>>

\* mutant: the catch block answers without an error string
ServerError_NoError(detail) == [status |-> 500, ok |-> FALSE, detail |-> detail]

\* res.status(500).json({ ok: false, error: "Server error", detail: ... })
ServerError(detail) ==
    [status |-> 500, ok |-> FALSE, error |-> "Server error", detail |-> detail]

\* JSON.parse(req.body) throws inside the try block
BodyParseError(i) ==
    /\ pc[i] = "start"
    /\ req[i].method = "POST"
    /\ EnvComplete
    /\ req[i].body.badJson
    /\ Send(i, ServerError("parse"))
    /\ pc' = [pc EXCEPT ![i] = "done"]
    /\ UNCHANGED <<run, env, req, up, art, meta, files, articles>>

\* mutant: && in place of ||
MissingRequired_And(body) ==
    /\ ~Truthy(body.timestamp)
    /\ (~Truthy(body.imageClean_b64) /\ ~Truthy(body.imageLogo_b64))

\* !timestamp || (!imageClean_b64 && !imageLogo_b64)
MissingRequired(body) ==
    \/ ~Truthy(body.timestamp)
    \/ (~Truthy(body.imageClean_b64) /\ ~Truthy(body.imageLogo_b64))

RejectMissingFields(i) ==
    /\ pc[i] = "start"
    /\ req[i].method = "POST"
    /\ EnvComplete
    /\ ~req[i].body.badJson
    /\ MissingRequired(req[i].body)
    /\ Send(i, [status |-> 400, ok |-> FALSE,
                error |-> "Missing required fields (timestamp and at least one image)"])
    /\ pc' = [pc EXCEPT ![i] = "done"]
    /\ UNCHANGED <<run, env, req, up, art, meta, files, articles>>

\* uploadFile up to its first await: "if (!b64MaybeWithPrefix) return null",
\* otherwise the POST /files.json is issued.
BeginUpload(b64) ==
    IF ~Truthy(b64)
    THEN [NoUpload EXCEPT !.pc = "settled", !.err = "absent"]
    ELSE [NoUpload EXCEPT !.pc = "creating", !.creates = 1]

\* Promise.all([uploadFile(clean), uploadFile(logo)]): both calls start
StartUploads(i) ==
    /\ pc[i] = "start"
    /\ req[i].method = "POST"
    /\ EnvComplete
    /\ ~req[i].body.badJson
    /\ ~MissingRequired(req[i].body)
    /\ up' = [up EXCEPT ![i] = [s \in Slots |-> BeginUpload(Image(req[i].body, s))]]
    /\ pc' = [pc EXCEPT ![i] = "uploading"]
    /\ UNCHANGED <<run, env, req, art, meta, resp, files, articles>>

\* ------------------------------------------------------------- uploadFile
\* The platform numbers the files it creates.
NextFileId == 1 + Cardinality({f \in files : f.owner # 0})
\* The public URL of a stored file; it ends with the file's name.
UrlOf(f) == [file |-> f.id, path |-> f.name]

\* mutant: i <= 10
LoopContinues_OffByOne(polls, url) == polls <= MaxPolls /\ url = Null

\* for (let i = 0; i < 10 && !url; i++)
LoopContinues(polls, url) == polls < MaxPolls /\ url = Null

\* if (!r.ok && !url) throw ...; if (!url) throw ...; return url;
UploadOutcome(rok, url) ==
    IF ~rok /\ url = Null THEN "rejected"
    ELSE IF url = Null THEN "timeout"
    ELSE "none"

\* mutant: a failed upload issues its POST /files.json once more
Caught_Retry(u, e) ==
    IF u.creates < 2
    THEN [u EXCEPT !.pc = "creating", !.creates = @ + 1]
    ELSE [u EXCEPT !.pc = "settled", !.err = e, !.result = Null]

\* .catch((e) => { console.error(...); return null; })
Caught(u, e) == [u EXCEPT !.pc = "settled", !.err = e, !.result = Null]

Finish(u) ==
    LET e == UploadOutcome(u.rok, u.url)
    IN  IF e = "none" THEN [u EXCEPT !.pc = "settled", !.result = u.url]
        ELSE Caught(u, e)

\* after a response: sleep before the next poll, or leave the loop
Continue(u) ==
    IF LoopContinues(u.polls, u.url) THEN [u EXCEPT !.pc = "sleeping"] ELSE Finish(u)

\* fetch of POST /files.json rejects (network error)
FileCreateThrows(i, s) ==
    /\ pc[i] = "uploading"
    /\ up[i][s].pc = "creating"
    /\ up' = [up EXCEPT ![i][s] = Caught(@, "network")]
    /\ UNCHANGED <<run, env, req, pc, art, meta, resp, files, articles>>

\* POST /files.json answers: a success status stores the file; the body
\* carries the file's url or not (json.file.url || json.files[0].url || null)
FileCreateResponds(i, s) ==
    /\ pc[i] = "uploading"
    /\ up[i][s].pc = "creating"
    /\ \E ok \in BOOLEAN, shown \in BOOLEAN :
        LET f == [id |-> NextFileId, name |-> FileName(req[i].body, s), owner |-> i]
            url == IF ok /\ shown THEN UrlOf(f) ELSE Null
        IN  /\ files' = IF ok THEN files \cup {f} ELSE files
            /\ up' = [up EXCEPT ![i][s] = Continue([@ EXCEPT !.rok = ok, !.url = url])]
    /\ UNCHANGED <<run, env, req, pc, art, meta, resp, articles>>

\* await sleep(700) is over: GET /files.json?limit=25&fields=... is issued
PollRequest(i, s) ==
    /\ pc[i] = "uploading"
    /\ up[i][s].pc = "sleeping"
    /\ up' = [up EXCEPT ![i][s] = [@ EXCEPT !.pc = "listing", !.lists = @ + 1]]
    /\ UNCHANGED <<run, env, req, pc, art, meta, resp, files, articles>>

\* the listing fetch rejects, or the listing is not an array
PollThrows(i, s) ==
    /\ pc[i] = "uploading"
    /\ up[i][s].pc = "listing"
    /\ up' = [up EXCEPT ![i][s] = Caught(@, "network")]
    /\ UNCHANGED <<run, env, req, pc, art, meta, resp, files, articles>>

\* A listing: some stored files in some order, no file twice, each with its
\* url or still without one.
Entry(f, ready) == [name |-> f.name, url |-> IF ready THEN UrlOf(f) ELSE Null]
Listings ==
    UNION {{[k \in 1..n |-> Entry(fs[k], rs[k])] :
              fs \in {q \in [1..n -> files] :
                         \A a, b \in 1..n : a # b => q[a] # q[b]},
              rs \in [1..n -> BOOLEAN]} :
           n \in 0..MaxList}

\* (fName && fName.includes(filename)) || (fUrl && fUrl.includes(filename))
Matches(f, filename) ==
    \/ (f.name # <<>> /\ Includes(f.name, filename))
    \/ (f.url # Null /\ Includes(f.url.path, filename))

\* list.find(...): the first matching entry, or Null (undefined)
Find(list, filename) ==
    LET hits == {k \in 1..Len(list) : Matches(list[k], filename)}
    IN  IF hits = {} THEN Null
        ELSE list[CHOOSE k \in hits : \A m \in hits : k <= m]

\* if (match && match.url) url = match.url;
PolledUrl(list, filename) ==
    LET match == Find(list, filename)
    IN  IF match # Null /\ match.url # Null THEN match.url ELSE Null

\* the listing holds an entry that matches the filename and has a url
HoldsResolvable(list, filename) ==
    \E k \in 1..Len(list) : Matches(list[k], filename) /\ list[k].url # Null

PollResponds(i, s) ==
    /\ pc[i] = "uploading"
    /\ up[i][s].pc = "listing"
    /\ \E list \in Listings :
        LET name == FileName(req[i].body, s)
            u == up[i][s]
        IN  up' = [up EXCEPT ![i][s] =
                      Continue([u EXCEPT !.url = PolledUrl(list, name),
                                         !.polls = u.polls + 1,
                                         !.held = HoldsResolvable(list, name)])]
    /\ UNCHANGED <<run, env, req, pc, art, meta, resp, files, articles>>

\* ------------------------------------------------- handler: after the join
\* mutant: Promise.race, the first upload to settle
UploadsJoined_Any(u) == \E s \in Slots : u[s].pc = "settled"

\* await Promise.all([...]): both uploads have settled
UploadsJoined(u) == \A s \in Slots : u[s].pc = "settled"

BrickArtist == <<"B", "a">>
NoBlock == [none |-> TRUE]
\* mutant: the block is written whatever the url
ImageBlock_Always(url) == [img |-> url]

\* ${url ? `<p><img src="${url}" ... /></p>` : ""}
ImageBlock(url) == IF url # Null THEN [img |-> url] ELSE NoBlock

\* mutant: the images are shown only when both are there
BodyHtml_BothOrNone(nickname, cleanUrl, logoUrl) ==
    [nickname |-> esc(String(OrElse(nickname, Str(BrickArtist)))),
     clean |-> IF logoUrl # Null THEN ImageBlock(cleanUrl) ELSE NoBlock,
     logo |-> IF cleanUrl # Null THEN ImageBlock(logoUrl) ELSE NoBlock]

\* body_html: the nickname line and the two image blocks
BodyHtml(nickname, cleanUrl, logoUrl) ==
    [nickname |-> esc(String(OrElse(nickname, Str(BrickArtist)))),
     clean |-> ImageBlock(cleanUrl),
     logo |-> ImageBlock(logoUrl)]

\* POST /blogs/${BLOG_ID}/articles.json is issued
CreateArticle(i) ==
    /\ pc[i] = "uploading"
    /\ UploadsJoined(up[i])
    /\ art' = [art EXCEPT ![i] =
                  [@ EXCEPT !.calls = @ + 1,
                            !.outcome = "inflight",
                            !.body = BodyHtml(req[i].body.nickname,
                                              up[i]["clean"].result,
                                              up[i]["logo"].result)]]
    /\ pc' = [pc EXCEPT ![i] = "article"]
    /\ UNCHANGED <<run, env, req, up, meta, resp, files, articles>>

\* the article fetch rejects: caught by the outer try
ArticleThrows(i) ==
    /\ pc[i] = "article"
    /\ art' = [art EXCEPT ![i].outcome = "threw"]
    /\ Send(i, ServerError("network"))
    /\ pc' = [pc EXCEPT ![i] = "done"]
    /\ UNCHANGED <<run, env, req, up, meta, files, articles>>

\* if (!ar.ok) { console.error(...); return res.status(500).json({...}) }
ArticleFailed == [status |-> 500, ok |-> FALSE, error |-> "Create article failed"]

ArticleFails(i) ==
    /\ pc[i] = "article"
    /\ art' = [art EXCEPT ![i].outcome = "failed"]
    /\ Send(i, ArticleFailed)
    /\ pc' = [pc EXCEPT ![i] = "done"]
    /\ UNCHANGED <<run, env, req, up, meta, files, articles>>

\* mutant: if (submitterEmail)
MetafieldWanted_EmailOnly(articleId, submitterEmail) == Truthy(submitterEmail)

\* if (articleId && submitterEmail)
MetafieldWanted(articleId, submitterEmail) ==
    articleId # Undefined /\ Truthy(submitterEmail)

\* res.status(200).json({ ok: true, articleId, articleUrl, files })
Success(a, u) ==
    [status |-> 200, ok |-> TRUE, articleId |-> a.articleId,
     articleUrl |-> a.articleUrl,
     files |-> [cleanUrl |-> u["clean"].result, logoUrl |-> u["logo"].result]]

\* the value of SHOPIFY_STORE_DOMAIN
StoreDomain == <<"s", ".", "m">>
Https == <<"h", "t", "t", "p", "s", ":", "/", "/">>
BlogsPath == <<"/", "b", "l", "o", "g", "s", "/">>
\* aj?.article?.handle and aj?.article?.blog?.handle of the platform's answer
HandleVals == {Undefined, Str(<<"h">>)}
BlogHandleVals == {Undefined, Str(<<"g">>)}

\* mutant: one of the two handles is enough
StorefrontUrl_Either(store, handle, blogHandle) ==
    IF Truthy(handle) \/ Truthy(blogHandle)
    THEN Str(Https \o store \o BlogsPath \o String(blogHandle) \o <<"/">>
             \o String(handle))
    ELSE Null

\* (handle && blogHandle) ? `https://${STORE}/blogs/${blogHandle}/${handle}` : null
StorefrontUrl(store, handle, blogHandle) ==
    IF Truthy(handle) /\ Truthy(blogHandle)
    THEN Str(Https \o store \o BlogsPath \o String(blogHandle) \o <<"/">>
             \o String(handle))
    ELSE Null

\* the article call answers with a success status: the platform has stored the
\* article; the body shows its id, its handle and its blog's handle, or not
\* (bothHandles: the answer carries the two handles)
ArticleSucceeds(i) ==
    /\ pc[i] = "article"
    /\ \E idShown \in BOOLEAN, handle \in HandleVals, blogHandle \in BlogHandleVals :
        LET id == Cardinality(articles) + 1
            a == [art[i] EXCEPT
                     !.outcome = "ok",
                     !.articleId = IF idShown THEN [id |-> id] ELSE Undefined,
                     !.bothHandles = (handle # Undefined /\ blogHandle # Undefined),
                     !.articleUrl = StorefrontUrl(StoreDomain, handle, blogHandle)]
        IN  /\ articles' = articles \cup {[id |-> id, owner |-> i, body |-> art[i].body]}
            /\ art' = [art EXCEPT ![i] = a]
            /\ IF MetafieldWanted(a.articleId, req[i].body.submitterEmail)
               THEN /\ meta' = [meta EXCEPT ![i] =
                                   [calls |-> meta[i].calls + 1,
                                    value |-> req[i].body.submitterEmail,
                                    outcome |-> "inflight"]]
                    /\ pc' = [pc EXCEPT ![i] = "metafield"]
                    /\ UNCHANGED resp
               ELSE /\ Send(i, Success(a, up[i]))
                    /\ pc' = [pc EXCEPT ![i] = "done"]
                    /\ UNCHANGED meta
    /\ UNCHANGED <<run, env, req, up, files>>

MetaOutcomes == {"ok", "failed", "threw"}

\* mutant: no inner try/catch, a thrown metafield call reaches the outer catch
AfterMetafield_Uncaught(outcome, success) ==
    IF outcome = "threw" THEN ServerError("network") ELSE success

\* try { await shopify(metafields) ... } catch (mfe) { console.warn(...) }:
\* whatever the call does, the handler goes on to the success response
AfterMetafield(outcome, success) == success

\* POST /articles/${articleId}/metafields.json settles
MetafieldSettles(i) ==
    /\ pc[i] = "metafield"
    /\ \E o \in MetaOutcomes :
        /\ meta' = [meta EXCEPT ![i].outcome = o]
        /\ Send(i, AfterMetafield(o, Success(art[i], up[i])))
    /\ pc' = [pc EXCEPT ![i] = "done"]
    /\ UNCHANGED <<run, env, req, up, art, files, articles>>

\* -------------------------------------------------------- specifications
Next ==
    \E i \in Inv :
        \/ RespondOptions(i)
        \/ RespondMethodNotAllowed(i)
        \/ MissingEnv(i)
        \/ BodyParseError(i)
        \/ RejectMissingFields(i)
        \/ StartUploads(i)
        \/ \E s \in Slots :
            \/ FileCreateThrows(i, s)
            \/ FileCreateResponds(i, s)
            \/ PollRequest(i, s)
            \/ PollThrows(i, s)
            \/ PollResponds(i, s)
        \/ CreateArticle(i)
        \/ ArticleThrows(i)
        \/ ArticleFails(i)
        \/ ArticleSucceeds(i)
        \/ MetafieldSettles(i)

Spec == Init /\ [][Next]_vars

\* Two requests with the same payload against an empty store; the payloads of
\* the pair have no nickname and no logo image.
PairRequests ==
    {r \in Requests : r.body.nickname = Undefined /\ r.body.imageLogo_b64 = Undefined}

InitPair ==
    /\ \E r \in PairRequests : req = [i \in Inv |-> r]
    /\ files = {}
    /\ InitCommon

SpecPair == InitPair /\ [][Next]_vars

\* =================================================== the other handlers
\* One invocation of one of the other handlers is the record run:
\*   handler  which handler runs
\*   req      method, body, and whether the process has its configuration
\*   pc       where the handler stands
\*   up       the two uploader calls (calls: the requests each has issued)
\*   art      the article-creation call
\*   mf       the metafield calls made
\*   resp     the responses sent through res
\* publish: app.post("/publish") of src/unnamed/part_001
SubmitHandlers ==
    {"part_003", "part_004", "part_007", "second", "third", "publish"}
EmailHandlers == {"email_image", "email_design"}

\* ------------------------------------------------ payloads and their parts
StartsWith(s, p) == Len(s) >= Len(p) /\ SubSeq(s, 1, Len(p)) = p
Drop(s, n) == SubSeq(s, n + 1, Len(s))
Chars(s) == {s[k] : k \in 1..Len(s)}

DataImage == <<"d", "a", "t", "a", ":", "i", "m", "a", "g", "e", "/">>
Base64Mark == <<";", "b", "a", "s", "e", "6", "4", ",">>
\* [a-zA-Z0-9.+-]
MimeChars == LowerCase \cup UpperCase \cup Digits \cup {".", "+", "-"}
\* the length of the longest prefix of s made of MimeChars
MimeRun(s) ==
    LET runs == {k \in 0..Len(s) : \A j \in 1..k : s[j] \in MimeChars}
    IN  CHOOSE k \in runs : \A m \in runs : m <= k

\* s.replace(/^data:image\/[a-zA-Z0-9.+-]+;base64,/, "")
StripDataUri(s) ==
    IF ~StartsWith(s, DataImage) THEN s
    ELSE LET rest == Drop(s, Len(DataImage))
             n == MimeRun(rest)
         IN  IF n > 0 /\ StartsWith(Drop(rest, n), Base64Mark)
             THEN Drop(rest, n + Len(Base64Mark))
             ELSE s

Whitespace == {" ", "\n", "\t"}
IsInk(c) == c \notin Whitespace
\* s.replace(/\s+/g, "")
StripSpace(s) == SelectSeq(s, IsInk)

\* s.trim()
RECURSIVE TrimLeft(_)
TrimLeft(s) ==
    IF s # <<>> /\ Head(s) \in Whitespace THEN TrimLeft(Tail(s)) ELSE s
RECURSIVE TrimRight(_)
TrimRight(s) ==
    IF s # <<>> /\ s[Len(s)] \in Whitespace
    THEN TrimRight(SubSeq(s, 1, Len(s) - 1)) ELSE s
Trim(s) == TrimRight(TrimLeft(s))

\* if (base64.length < 100)
MinBase64 == 100

Fill(n) == [k \in 1..n |-> "A"]
DataUriPng == DataImage \o Png \o Base64Mark
\* ten characters of base64
Short == Str(Fill(10))
\* a payload of exactly the minimum length
Long == Str(Fill(MinBase64))
\* a data URI whose base64 part falls one short of the minimum once the
\* prefix and the line break are gone
Padded == Str(DataUriPng \o Fill(MinBase64 - 1) \o <<"\n">>)
\* a data URI with nothing after the prefix
OnlyPrefix == Str(DataUriPng)

\* ------------------------------------------------ requests of the others
\* brickCounts: a JS object is the sequence of its entries in insertion order
Map(m) == [map |-> m]
IsMap(v) == "map" \in DOMAIN v
Tan == <<"t", "a", "n">>
Blue == <<"b", "<", "u">>
CountVals ==
    {Undefined, Map(<<>>),
     Map(<<[color |-> Tan, count |-> 5], [color |-> Blue, count |-> 2]>>),
     Map(<<[color |-> Blue, count |-> 2], [color |-> Tan, count |-> 5]>>),
     Map(<<[color |-> Tan, count |-> 0]>>)}

\* the body of a submission, after the handler's JSON.parse
SubmitBodies(h) ==
    [badJson : {FALSE},
     timestamp : {Undefined, Str(A1)},
     nickname : NicknameVals,
     imageClean_b64 : IF h = "part_003" THEN {Undefined, Short, Long, Padded}
                      ELSE IF h \in {"second", "publish"} THEN {Undefined, Long}
                      ELSE {Undefined, Long, OnlyPrefix},
     imageLogo_b64 : {Undefined, Long},
     email : IF h \in {"part_003", "part_004", "part_007"} THEN EmailVals
             ELSE {Undefined},
     brickCounts : IF h \in {"part_007", "second", "publish"} THEN CountVals
                   ELSE {Undefined}]
    \cup
    [badJson : {TRUE}, timestamp : {Undefined}, nickname : {Undefined},
     imageClean_b64 : {Undefined}, imageLogo_b64 : {Undefined},
     email : {Undefined}, brickCounts : {Undefined}]

\* if (rawBody.length > 2 * 1024 * 1024)
MaxBody == 2 * 1024 * 1024
\* the request stream of email-image.js, as the lengths of the chunks it
\* yields; StreamError stands where the iteration throws
StreamError == -1
Streams ==
    UNION {[1..k -> {MaxBody \div 2, 1, StreamError}] : k \in 0..MaxChunks}

\* the body of a notification request: chunks, what the stream yields;
\* badJson, JSON.parse rejects the text; email and attachment, the fields
\* of the parsed body
EmailBodies ==
    [chunks : Streams, badJson : BOOLEAN,
     email : EmailVals, attachment : {Undefined, Long}]

\* configured: the environment values the handler needs are all set
\* (email-design.js reads req.body as the framework parsed it; the route
\* of part_001 is reached by POST only, with the body express.json parsed)
OtherRequests(h) ==
    [method : IF h = "publish" THEN {"POST"} ELSE Methods,
     configured : BOOLEAN,
     body : IF h = "publish" THEN {b \in SubmitBodies(h) : ~b.badJson}
            ELSE IF h \in SubmitHandlers THEN SubmitBodies(h)
            ELSE IF h = "email_image" THEN EmailBodies
            ELSE {b \in EmailBodies : b.chunks = <<>> /\ ~b.badJson}]

\* an uploader call: calls, the requests it has issued, in order; target,
\* the staged target it was given; stored, the byte upload succeeded; polls,
\* the lookups by filename that found nothing; elapsed, Date.now() - started
FreshUpload ==
    [pc |-> "unstarted", calls |-> <<>>, target |-> FALSE, stored |-> FALSE,
     polls |-> 0, elapsed |-> 0, result |-> Null]
FreshArticle ==
    [calls |-> 0, body |-> Null, outcome |-> "none", articleId |-> Undefined,
     handle |-> Undefined, blogHandle |-> Undefined]

Invoke(h, r) ==
    [handler |-> h, req |-> r, pc |-> "start",
     up |-> [s \in Slots |-> FreshUpload], art |-> FreshArticle,
     mf |-> <<>>, read |-> 0, rawBody |-> 0, parsed |-> FALSE, mail |-> 0,
     upstream |-> "none",
     resp |-> <<>>]

\* the strings esc is applied to
EscInputs ==
    UNION {[1..k -> {"&", "<", ">", "\"", "'", "a"}] : k \in 0..MaxLen}

\* the first handler is not invoked; one of the others is, or esc is applied
InitOther ==
    /\ env = EnvKeys
    /\ req = [i \in Inv |-> NoReq]
    /\ pc = [i \in Inv |-> "none"]
    /\ up = [i \in Inv |-> [s \in Slots |-> NoUpload]]
    /\ art = [i \in Inv |-> NoArticle]
    /\ meta = [i \in Inv |-> NoMeta]
    /\ resp = [i \in Inv |-> <<>>]
    /\ files = {}
    /\ articles = {}
    /\ \/ \E h \in SubmitHandlers \cup EmailHandlers :
            \E r \in OtherRequests(h) : run = Invoke(h, r)
       \/ \E s \in EscInputs :
            run = [handler |-> "esc", pc |-> "input", input |-> s, output |-> <<>>]

\* ------------------------------------------------- heads of the others
Answer(r, response) == [r EXCEPT !.resp = Append(@, response), !.pc = "done"]

\* res.status(200).end() or res.status(204).end()
OptionsStatus(h) ==
    IF h \in {"part_003", "email_image", "email_design"} THEN 200 ELSE 204

\* the second handler of src/api/submit.js has no OPTIONS branch
AnswersOptions(h) == h # "second"

\* if (req.method === "OPTIONS") return res.status(...).end();
RunPreflight ==
    /\ run # Idle
    /\ run.pc = "start"
    /\ run.req.method = "OPTIONS"
    /\ AnswersOptions(run.handler)
    /\ run' = Answer(run, [status |-> OptionsStatus(run.handler)])
    /\ UNCHANGED first

\* if (req.method !== "POST") return res.status(405).json(...), reached by
\* the methods the preflight branch has not answered
Refused(h, method) ==
    method # "POST" /\ (method # "OPTIONS" \/ ~AnswersOptions(h))

RunMethodNotAllowed ==
    /\ run # Idle
    /\ run.pc = "start"
    /\ Refused(run.handler, run.req.method)
    /\ run' = Answer(run, [status |-> 405, ok |-> FALSE,
                           error |-> "Method Not Allowed"])
    /\ UNCHANGED first

\* part_003: need(k) throws outside the try block, nothing is sent
RunEnvThrows ==
    /\ run # Idle
    /\ run.handler = "part_003"
    /\ run.pc = "start"
    /\ run.req.method = "POST"
    /\ ~run.req.configured
    /\ run' = [run EXCEPT !.pc = "crashed"]
    /\ UNCHANGED first

\* if (!STORE || !TOKEN || !BLOG_ID) / if (!SENDGRID_API_KEY): 500
RunNotConfigured ==
    /\ run # Idle
    /\ run.handler \notin {"part_003", "second"}
    /\ run.pc = "start"
    /\ run.req.method = "POST"
    /\ ~run.req.configured
    /\ run' = Answer(run, [status |-> 500, ok |-> FALSE,
                           error |-> "not configured"])
    /\ UNCHANGED first

\* mutant: the body is processed whatever the method
Entered_AnyMethod(hs) ==
    /\ run # Idle
    /\ run.handler \in hs
    /\ run.pc = "start"
    /\ (run.req.configured \/ run.handler \in {"second", "publish"})

\* the handler has reached the parsing of the body
Entered(hs) ==
    /\ run # Idle
    /\ run.handler \in hs
    /\ run.pc = "start"
    /\ run.req.method = "POST"
    /\ (run.req.configured \/ run.handler \in {"second", "publish"})

\* JSON.parse(req.body) throws inside the try block
RunParseFails ==
    /\ Entered(SubmitHandlers)
    /\ run.req.body.badJson
    /\ run' = Answer(run, ServerError("parse"))
    /\ UNCHANGED first

\* !timestamp || (!imageClean_b64 && !imageLogo_b64); the second handler of
\* src/api/submit.js: !nickname || !timestamp; part_001 requires nothing
RunMissing(h, body) ==
    IF h = "publish" THEN FALSE
    ELSE IF h = "second"
    THEN ~Truthy(body.nickname) \/ ~Truthy(body.timestamp)
    ELSE \/ ~Truthy(body.timestamp)
         \/ (~Truthy(body.imageClean_b64) /\ ~Truthy(body.imageLogo_b64))

RunFieldsMissing ==
    /\ Entered(SubmitHandlers)
    /\ ~run.req.body.badJson
    /\ RunMissing(run.handler, run.req.body)
    /\ run' = Answer(run, [status |-> 400, ok |-> FALSE,
                           error |-> "Missing required fields"])
    /\ UNCHANGED first

\* ------------------------------------------------ uploaders of the others
\* the two uploads are started together: Promise.all([...]) without a
\* .catch on either (part_003, part_004); the others await them in turn
Parallel(h) == h \in {"part_003", "part_004"}

\* the URL the platform gives the file of a slot
FileUrl(s) == [url |-> s]
\* uploadSingleImageToShopify returns "" where the others return null
NoUrl(h) == IF h \in {"second", "publish"} THEN Str(<<>>) ELSE Null

Settled(u, result) == [u EXCEPT !.pc = "settled", !.result = result]
Issue(u, step, call) == [u EXCEPT !.pc = step, !.calls = Append(@, call)]

\* mutant: the length is taken before the prefix and whitespace are removed
TooShort_Unstripped(b64) == Len(String(b64)) < MinBase64

\* const base64 = String(b64).replace(prefix, "").replace(/\s+/g, "");
\* if (base64.length < 100) return null;
TooShort(b64) == Len(StripSpace(StripDataUri(String(b64)))) < MinBase64

\* toRawBase64(src): src.replace(prefix, "").trim()
toRawBase64(b64) == Trim(StripDataUri(String(b64)))

\* the uploader up to its first await
Begin(h, b64, configured) ==
    CASE h = "part_003" ->
            IF ~Truthy(b64) \/ TooShort(b64) THEN Settled(FreshUpload, Null)
            ELSE Issue(FreshUpload, "creating", "POST /files.json")
      [] h \in {"part_004", "part_007"} ->
            IF ~Truthy(b64) \/ toRawBase64(b64) = <<>>
            THEN Settled(FreshUpload, Null)
            ELSE Issue(FreshUpload, "staging", "stagedUploadsCreate")
      [] h = "third" ->
            IF ~Truthy(b64) \/ toRawBase64(b64) = <<>>
            THEN Settled(FreshUpload, Null)
            ELSE Issue(FreshUpload, "creating", "POST /files.json")
      [] h = "second" ->
            IF ~Truthy(b64) \/ Trim(String(b64)) = <<>>
            THEN Settled(FreshUpload, Str(<<>>))
            ELSE IF ~configured THEN [FreshUpload EXCEPT !.pc = "failed"]
            ELSE Issue(FreshUpload, "creating", "fileCreate")
      [] h = "publish" ->
            IF ~Truthy(b64) \/ Trim(String(b64)) = <<>>
            THEN Settled(FreshUpload, Str(<<>>))
            ELSE Issue(FreshUpload, "creating", "fileCreate")

\* an upload has thrown while the handler awaits the uploads: the catch
\* block of the handler answers 500
Thrown(r) ==
    IF r.pc = "uploading" /\ \E s \in Slots : r.up[s].pc = "failed"
    THEN Answer(r, ServerError("upload"))
    ELSE r

\* the uploads begin: both of them, or the clean one
RunStartUploads ==
    /\ Entered(SubmitHandlers)
    /\ ~run.req.body.badJson
    /\ ~RunMissing(run.handler, run.req.body)
    /\ LET h == run.handler
           b == run.req.body
           c == run.req.configured
       IN  run' = Thrown([run EXCEPT
                    !.pc = "uploading",
                    !.up = [s \in Slots |->
                              IF s = "clean" \/ Parallel(h)
                              THEN Begin(h, Image(b, s), c)
                              ELSE FreshUpload]])
    /\ UNCHANGED first

\* the clean upload has returned: the logo upload begins
RunNextUpload ==
    /\ run # Idle
    /\ run.pc = "uploading"
    /\ run.up["clean"].pc = "settled"
    /\ run.up["logo"].pc = "unstarted"
    /\ run' = Thrown([run EXCEPT !.up["logo"] =
                        Begin(run.handler, run.req.body.imageLogo_b64,
                              run.req.configured)])
    /\ UNCHANGED first

\* an uploader call of the invocation is at step p; the other upload of a
\* Promise.all goes on after the handler has answered
At(s, p, hs) ==
    /\ run # Idle
    /\ run.handler \in hs
    /\ run.pc \in {"uploading", "done"}
    /\ run.up[s].pc = p

Failing(u) == [u EXCEPT !.pc = "failed"]
SetUpload(s, u) == run' = Thrown([run EXCEPT !.up[s] = u])

\* an awaited fetch of the uploader rejects, or its body cannot be read:
\* none of the uploaders catches it
RunFetchThrows(s) ==
    /\ At(s, run.up[s].pc, SubmitHandlers)
    /\ run.up[s].pc \in {"creating", "listing", "staging", "posting",
                          "registering", "asking"}
    /\ SetUpload(s, Failing(run.up[s]))
    /\ UNCHANGED first

\* const limitMs = 20_000
LimitMs == 20000
\* await new Promise((s) => setTimeout(s, 1000))
SleepMs == 1000

\* while (!url && Date.now() - started < limitMs)
InLoop(url, elapsed) == url = Null /\ elapsed < LimitMs

\* after the answer to POST /files.json
\* part_003: if (url) return url; if (r.status >= 400) throw ...; then the
\*           polling loop, entered with started = Date.now()
\* third:    if (!r.ok) throw ...; return url (or null)
\* second:   if (!resp.ok) return ""; return cdnUrl (or "")
\* publish:  resp.ok is not read; return url (or "")
Created(h, u, s, ok, shown) ==
    LET url == IF shown THEN FileUrl(s) ELSE NoUrl(h)
    IN  CASE h = "part_003" ->
                IF shown THEN Settled(u, url)
                ELSE IF ~ok THEN Failing(u)
                ELSE [u EXCEPT !.pc = "sleeping"]
          [] h = "third" -> IF ~ok THEN Failing(u) ELSE Settled(u, url)
          [] h = "second" -> IF ~ok THEN Settled(u, NoUrl(h)) ELSE Settled(u, url)
          [] h = "publish" -> Settled(u, url)

\* the platform answers the file-creation call
RunCreateResponds(s) ==
    /\ At(s, "creating", {"part_003", "third", "second", "publish"})
    /\ \E ok \in BOOLEAN, shown \in BOOLEAN :
        SetUpload(s, Created(run.handler, run.up[s], s, ok, shown))
    /\ UNCHANGED first

\* part_003: the sleep is over, at least SleepMs later, and the listing
\* GET /files.json?limit=25&fields=... is issued
RunPollRequest(s) ==
    /\ At(s, "sleeping", {"part_003"})
    /\ \E later \in {run.up[s].elapsed + SleepMs, LimitMs} :
        SetUpload(s, Issue([run.up[s] EXCEPT !.elapsed = later],
                           "listing", "GET /files.json"))
    /\ UNCHANGED first

\* after a listing: if (match?.url) { url = match.url; break; }, the loop
\* goes on while there is time, and
\* if (!url) throw new Error("File appeared to upload but no URL ...")
Polled(u, s, found) ==
    LET url == IF found THEN FileUrl(s) ELSE Null
    IN  IF InLoop(url, u.elapsed) THEN [u EXCEPT !.pc = "sleeping"]
        ELSE IF url = Null THEN Failing(u)
        ELSE Settled(u, url)

\* part_003: the listing answers, with or without a matching entry that
\* has a url
RunPollResponds(s) ==
    /\ At(s, "listing", {"part_003"})
    /\ \E found \in BOOLEAN : SetUpload(s, Polled(run.up[s], s, found))
    /\ UNCHANGED first

\* ------------------------------------------- uploadImageB64ToFiles
Staged == {"part_004", "part_007"}

\* getFileUrlByFilename(filename, tries = 5)
Tries == 5

\* mutant: the bytes are posted although no target was given
AfterStaging_NoCheck(u, target) ==
    Issue([u EXCEPT !.target = target], "posting", "POST staged target")

\* const target = data1?.stagedUploadsCreate?.stagedTargets?.[0];
\* if (!target) throw ...; then fetch(target.url, { method: "POST", body: form })
AfterStaging(u, target) ==
    IF ~target THEN Failing(u)
    ELSE Issue([u EXCEPT !.target = TRUE], "posting", "POST staged target")

\* stagedUploadsCreate answers without errors, with a target or without
RunStagingResponds(s) ==
    /\ At(s, "staging", Staged)
    /\ \E target \in BOOLEAN : SetUpload(s, AfterStaging(run.up[s], target))
    /\ UNCHANGED first

\* mutant: fileCreate is sent whatever the staged target answered
AfterBytes_NoCheck(u, ok) ==
    Issue([u EXCEPT !.stored = ok], "registering", "fileCreate")

\* if (!s3Resp.ok) throw ...; then shopifyGQL(FILE_CREATE, ...)
AfterBytes(u, ok) ==
    IF ~ok THEN Failing(u)
    ELSE Issue([u EXCEPT !.stored = TRUE], "registering", "fileCreate")

\* the staged target answers the multipart POST
RunBytesRespond(s) ==
    /\ At(s, "posting", Staged)
    /\ \E ok \in BOOLEAN : SetUpload(s, AfterBytes(run.up[s], ok))
    /\ UNCHANGED first

\* fileCreate answers without errors: with the file's url, or the lookup by
\* filename begins with its first query (i = 0)
RunRegisterResponds(s) ==
    /\ At(s, "registering", Staged)
    /\ \E shown \in BOOLEAN :
        SetUpload(s, IF shown THEN Settled(run.up[s], FileUrl(s))
                     ELSE Issue(run.up[s], "asking", "files query"))
    /\ UNCHANGED first

\* the files query answers: a node with a url ends the lookup, otherwise
\* await sleep(500 + i * 250)
RunQueryResponds(s) ==
    /\ At(s, "asking", Staged)
    /\ \E found \in BOOLEAN :
        SetUpload(s, IF found THEN Settled(run.up[s], FileUrl(s))
                     ELSE [run.up[s] EXCEPT !.pc = "waiting", !.polls = @ + 1])
    /\ UNCHANGED first

\* the sleep is over: i++, the next query if i < tries; otherwise the lookup
\* returns null and the uploader throws (if (!url) throw ...)
RunQueryAgain(s) ==
    /\ At(s, "waiting", Staged)
    /\ SetUpload(s, IF run.up[s].polls < Tries
                    THEN Issue(run.up[s], "asking", "files query")
                    ELSE Failing(run.up[s]))
    /\ UNCHANGED first

\* ------------------------------------------------ composers of the others
\* color.charAt(0).toUpperCase() + color.slice(1).toLowerCase()
Nice(color) ==
    IF color = <<>> THEN <<>>
    ELSE LET c == Head(color)
             upper == CASE c = "a" -> "A" [] c = "b" -> "B" [] c = "t" -> "T"
                        [] OTHER -> c
         IN  <<upper>> \o LowerSeq(Tail(color))

\* .filter(([, n]) => Number(n) > 0)
Counted(e) == e.count > 0

\* .sort((a, b) => Number(b[1]) - Number(a[1])): stable, highest first
InsertDesc(sorted, e) ==
    LET k == Cardinality({j \in 1..Len(sorted) : sorted[j].count >= e.count})
    IN  SubSeq(sorted, 1, k) \o <<e>> \o SubSeq(sorted, k + 1, Len(sorted))
RECURSIVE SortInto(_, _)
SortInto(sorted, rest) ==
    IF rest = <<>> THEN sorted
    ELSE SortInto(InsertDesc(sorted, Head(rest)), Tail(rest))
SortDesc(entries) == SortInto(<<>>, entries)

\* part_007: countsObj, entries and countsHtml; the <li> of an entry is
\* `<li>${escHTML(String(color))}: ${Number(n)}</li>`
CountsHtml(brickCounts) ==
    LET countsObj == IF IsMap(brickCounts) THEN brickCounts.map ELSE <<>>
        entries == SortDesc(SelectSeq(countsObj, Counted))
    IN  IF entries = <<>> THEN NoBlock
        ELSE [list |-> [k \in 1..Len(entries) |->
                          [color |-> esc(entries[k].color),
                           count |-> entries[k].count]]]

\* buildArticleHTML: brickList, `<li>${nice}: ${count}</li>` for the entries
\* of brickCounts as Object.entries gives them
brickList(brickCounts) ==
    IF ~IsMap(brickCounts) THEN NoBlock
    ELSE [list |-> [k \in 1..Len(brickCounts.map) |->
                      [color |-> Nice(brickCounts.map[k].color),
                       count |-> brickCounts.map[k].count]]]

\* part_001, buildArticleHTML: brickListHtml, with brickCounts = {} where
\* the body has none; `<li><strong>${color}</strong>: ${count}</li>`
brickListHtml(brickCounts) ==
    [list |-> IF IsMap(brickCounts) THEN brickCounts.map ELSE <<>>]

\* ${url ? `<p><img src="${url}" .../></p>` : ""}, "" being falsy as null is
UrlBlock(url) == IF url \in {Null, Str(<<>>)} THEN NoBlock ELSE [img |-> url]

\* the default a composer writes for a missing nickname: "Student",
\* "Unknown Artist", "Anonymous"
Fallback(h) ==
    CASE h = "part_003" -> Str(<<"S", "t">>)
      [] h \in {"second", "publish"} -> Str(<<"U", "n">>)
      [] OTHER -> Str(<<"A", "n">>)

\* body_html of the handler (buildArticleHTML for the second handler of
\* src/api/submit.js, which interpolates its fields as they are)
Compose(h, body, cleanUrl, logoUrl) ==
    [nickname |-> IF h \in {"second", "publish"}
                  THEN String(OrElse(body.nickname, Fallback(h)))
                  ELSE esc(String(OrElse(body.nickname, Fallback(h)))),
     email |-> IF h = "part_004" /\ Truthy(body.email)
               THEN esc(String(body.email)) ELSE <<>>,
     counts |-> CASE h = "part_007" -> CountsHtml(body.brickCounts)
                  [] h = "second" -> brickList(body.brickCounts)
                  [] h = "publish" -> brickListHtml(body.brickCounts)
                  [] OTHER -> NoBlock,
     clean |-> UrlBlock(cleanUrl),
     logo |-> UrlBlock(logoUrl)]

\* -------------------------------------------- the article of the others
\* both uploads have returned: the body is composed and
\* POST /blogs/${BLOG_ID}/articles.json is issued; createShopifyArticle of
\* the second handler throws before the call if the environment is not set
RunCreateArticle ==
    /\ run # Idle
    /\ run.pc = "uploading"
    /\ \A s \in Slots : run.up[s].pc = "settled"
    /\ run' =
         IF run.handler = "second" /\ ~run.req.configured
         THEN Answer(run, ServerError("env"))
         ELSE [run EXCEPT
                 !.pc = "article",
                 !.art = [@ EXCEPT
                            !.calls = @ + 1,
                            !.body = Compose(run.handler, run.req.body,
                                             run.up["clean"].result,
                                             run.up["logo"].result),
                            !.outcome = "inflight"]]
    /\ UNCHANGED first

\* the fetch of the article call rejects, or its body cannot be read
RunArticleThrows ==
    /\ run # Idle
    /\ run.pc = "article"
    /\ run' = Answer([run EXCEPT !.art.outcome = "threw"], ServerError("network"))
    /\ UNCHANGED first

\* the metafield writes the handler makes after the article, in order
Metafields(h, articleId, body) ==
    CASE h = "part_003" ->
            IF articleId # Undefined /\ Truthy(body.email)
            THEN <<"submitter_email">> ELSE <<>>
      [] h = "part_007" ->
            (IF articleId # Undefined /\ IsMap(body.brickCounts)
                /\ body.brickCounts.map # <<>>
             THEN <<"brick_counts">> ELSE <<>>)
            \o (IF articleId # Undefined /\ Truthy(body.email)
                THEN <<"submitter_email">> ELSE <<>>)
      [] OTHER -> <<>>

\* res.status(200).json({ ok: true, articleId, cleanUrl, logoUrl,
\* storefrontUrl }); the second handler answers with the article's handle
Succeed(r) ==
    Answer(r, [status |-> 200, ok |-> TRUE, articleId |-> r.art.articleId,
               cleanUrl |-> r.up["clean"].result,
               logoUrl |-> r.up["logo"].result,
               storefrontUrl |->
                   IF r.handler \in {"second", "publish"} THEN Undefined
                   ELSE StorefrontUrl(StoreDomain, r.art.handle, r.art.blogHandle)])

\* the article call has answered with a non-success status
\* part_001: postResp.ok is not read, the success response is sent
AfterFailure(r) ==
    CASE r.handler = "publish" -> Succeed(r)
      [] r.handler = "second" -> Answer(r, ServerError("article"))
      [] OTHER -> Answer(r, [status |-> 500, ok |-> FALSE,
                             error |-> "Failed to create article"])

\* if (!ar.ok) return res.status(500).json({ ok: false, error: ... });
\* createShopifyArticle of the second handler throws instead, and the catch
\* block answers
RunArticleFails ==
    /\ run # Idle
    /\ run.pc = "article"
    /\ run' = AfterFailure([run EXCEPT !.art.outcome = "failed"])
    /\ UNCHANGED first

\* the article call answers with a success status; the body shows the
\* article's id, its handle and its blog's handle, or not
RunArticleSucceeds ==
    /\ run # Idle
    /\ run.pc = "article"
    /\ \E idShown \in BOOLEAN, handle \in HandleVals, blogHandle \in BlogHandleVals :
        LET r == [run EXCEPT
                    !.art.outcome = "ok",
                    !.art.articleId = IF idShown THEN [id |-> 1] ELSE Undefined,
                    !.art.handle = handle,
                    !.art.blogHandle = blogHandle]
            todo == Metafields(r.handler, r.art.articleId, r.req.body)
        IN  run' = IF todo = <<>> THEN Succeed(r)
                   ELSE [r EXCEPT !.pc = "metafield", !.mf = <<todo[1]>>]
    /\ UNCHANGED first

\* a metafield write ends, with any status or with a thrown error that the
\* try block around it catches: the next write is issued, or the handler
\* answers
RunMetafieldSettles ==
    /\ run # Idle
    /\ run.pc = "metafield"
    /\ LET todo == Metafields(run.handler, run.art.articleId, run.req.body)
       IN  run' = IF Len(run.mf) < Len(todo)
                  THEN [run EXCEPT !.mf = Append(@, todo[Len(run.mf) + 1])]
                  ELSE Succeed(run)
    /\ UNCHANGED first

\* ------------------------------------------------ the notifier endpoints
\* email-image.js: the chunk the loop "for await (const chunk of req)" is
\* about to receive
Pending(r) ==
    /\ r.handler = "email_image"
    /\ r.read < Len(r.req.body.chunks)
NextChunk(r) == r.req.body.chunks[r.read + 1]

\* mutant: a body of exactly the limit is refused
TooLarge_Inclusive(length) == length >= MaxBody

\* if (rawBody.length > 2 * 1024 * 1024)
TooLarge(length) == length > MaxBody

\* rawBody += chunk
Received(r) ==
    [r EXCEPT !.read = @ + 1, !.rawBody = @ + NextChunk(r)]

\* email-image.js: for await (const chunk of req) throws
RunReadFails ==
    /\ Entered({"email_image"})
    /\ Pending(run)
    /\ NextChunk(run) = StreamError
    /\ run' = Answer(run, [status |-> 400, ok |-> FALSE,
                           error |-> "Unable to read request body"])
    /\ UNCHANGED first

\* email-image.js: a chunk arrives and the text stays within the limit
RunReadChunk ==
    /\ Entered({"email_image"})
    /\ Pending(run)
    /\ NextChunk(run) # StreamError
    /\ ~TooLarge(Received(run).rawBody)
    /\ run' = Received(run)
    /\ UNCHANGED first

\* email-image.js: a chunk arrives and the text is past the limit: 413
RunTooLarge ==
    /\ Entered({"email_image"})
    /\ Pending(run)
    /\ NextChunk(run) # StreamError
    /\ TooLarge(Received(run).rawBody)
    /\ run' = Answer(Received(run), [status |-> 413, ok |-> FALSE,
                                     error |-> "Payload too large"])
    /\ UNCHANGED first

\* email-image.js: JSON.parse(rawBody) throws
RunInvalidJson ==
    /\ Entered({"email_image"})
    /\ ~Pending(run)
    /\ run.req.body.badJson
    /\ run' = Answer([run EXCEPT !.parsed = TRUE],
                     [status |-> 400, ok |-> FALSE, error |-> "Invalid JSON body"])
    /\ UNCHANGED first

\* the stream has ended and JSON.parse has accepted the text (email-design.js
\* reads req.body, which the framework has parsed)
Parsed(r) == ~Pending(r) /\ ~r.req.body.badJson

\* mutant: the request is refused only when both fields are missing
MailMissing_Both(body) == ~Truthy(body.email) /\ ~Truthy(body.attachment)

\* if (!email || !imageBase64) / if (!email || !pdfBase64)
MailMissing(body) == ~Truthy(body.email) \/ ~Truthy(body.attachment)

RunMailFieldsMissing ==
    /\ Entered(EmailHandlers)
    /\ Parsed(run)
    /\ MailMissing(run.req.body)
    /\ run' = Answer([run EXCEPT !.parsed = TRUE],
                     [status |-> 400, ok |-> FALSE,
                      error |-> "Missing 'email' or attachment in body"])
    /\ UNCHANGED first

\* fetch("https://api.sendgrid.com/v3/mail/send", ...) is issued
RunSend ==
    /\ Entered(EmailHandlers)
    /\ Parsed(run)
    /\ ~MailMissing(run.req.body)
    /\ run' = [run EXCEPT !.pc = "sending", !.parsed = TRUE, !.mail = @ + 1,
                          !.upstream = "inflight"]
    /\ UNCHANGED first

\* mutant: the status of the email API's answer is not looked at
RefusedStatus_Accepted(h) == 200

\* the status of the answer to a refused send: 500 "SendGrid error" in
\* email-image.js, 502 "Upstream email service error" in email-design.js
RefusedStatus(h) == IF h = "email_image" THEN 500 ELSE 502

\* the email API answers
RunSendResponds ==
    /\ run # Idle
    /\ run.pc = "sending"
    /\ \E ok \in BOOLEAN :
        run' = Answer([run EXCEPT !.upstream = IF ok THEN "ok" ELSE "refused"],
                 IF ok THEN [status |-> 200, ok |-> TRUE]
                 ELSE [status |-> RefusedStatus(run.handler), ok |-> FALSE,
                       error |-> "SendGrid error"])
    /\ UNCHANGED first

\* the fetch of the email API rejects
RunSendThrows ==
    /\ run # Idle
    /\ run.pc = "sending"
    /\ run' = Answer([run EXCEPT !.upstream = "threw"], ServerError("network"))
    /\ UNCHANGED first

\* --------------------------------------------------------- esc on its own
Escape ==
    /\ run # Idle
    /\ run.handler = "esc"
    /\ run.pc = "input"
    /\ run' = [run EXCEPT !.pc = "output", !.output = esc(run.input)]
    /\ UNCHANGED first

\* --------------------------------------- specifications of the others
NextOther ==
    \/ RunPreflight
    \/ RunMethodNotAllowed
    \/ RunEnvThrows
    \/ RunNotConfigured
    \/ RunParseFails
    \/ RunFieldsMissing
    \/ RunStartUploads
    \/ RunNextUpload
    \/ \E s \in Slots :
        \/ RunFetchThrows(s)
        \/ RunCreateResponds(s)
        \/ RunPollRequest(s)
        \/ RunPollResponds(s)
        \/ RunStagingResponds(s)
        \/ RunBytesRespond(s)
        \/ RunRegisterResponds(s)
        \/ RunQueryResponds(s)
        \/ RunQueryAgain(s)
    \/ RunCreateArticle
    \/ RunArticleThrows
    \/ RunArticleFails
    \/ RunArticleSucceeds
    \/ RunMetafieldSettles
    \/ RunReadFails
    \/ RunReadChunk
    \/ RunTooLarge
    \/ RunInvalidJson
    \/ RunMailFieldsMissing
    \/ RunSend
    \/ RunSendResponds
    \/ RunSendThrows
    \/ Escape

\* one invocation of one of the other handlers, or one application of esc
SpecOther == InitOther /\ [][NextOther]_vars

\* one invocation of any handler
InitAny == Init \/ InitOther
NextAny == Next \/ NextOther
SpecAny == InitAny /\ [][NextAny]_vars

\* ------------------------------------------------------------------ claims
Sent(i) == Len(resp[i]) > 0
Reply(i) == resp[i][1]
Has(r, k) == k \in DOMAIN r

\* the calls invocation i has made to the platform
PlatformCalls(i) ==
    up[i]["clean"].creates + up[i]["clean"].lists
    + up[i]["logo"].creates + up[i]["logo"].lists
    + art[i].calls + meta[i].calls

BadRequest(i) ==
    /\ req[i] # NoReq
    /\ req[i].method = "POST"
    /\ EnvKeys \subseteq env
    /\ ~req[i].body.badJson
    /\ \/ ~Truthy(req[i].body.timestamp)
       \/ (~Truthy(req[i].body.imageClean_b64) /\ ~Truthy(req[i].body.imageLogo_b64))

\* C1: a POST, with the three environment values present, whose parsed body
\* has no truthy timestamp or has neither image, is answered 400 with ok:false
\* and makes no call to the platform.
C1_BadRequestRejected ==
    \A i \in Inv :
        BadRequest(i) =>
            /\ PlatformCalls(i) = 0
            /\ pc[i] \in {"start", "done"}
            /\ pc[i] = "done" =>
                /\ Len(resp[i]) = 1
                /\ Reply(i).status = 400
                /\ Reply(i).ok = FALSE

C1_Witness ==
    \E i \in Inv :
        /\ BadRequest(i)
        /\ Truthy(req[i].body.timestamp)
        /\ pc[i] = "done"
        /\ Reply(i).status = 400

Failed(u) == u.pc = "settled" /\ u.err \in {"network", "rejected", "timeout"}
Resolved(u) == u.pc = "settled" /\ u.err = "none" /\ u.result # Null
BodySlot(body, s) == IF s = "clean" THEN body.clean ELSE body.logo
FilesSlot(r, s) == IF s = "clean" THEN r.files.cleanUrl ELSE r.files.logoUrl
Other(s) == IF s = "clean" THEN "logo" ELSE "clean"

\* C2: the body_html sent to the article-creation endpoint holds the image
\* block of a slot if and only if that slot's upload resolved to a URL, and then
\* the block refers to that URL; an upload that was absent, threw or timed out
\* contributes no image reference.
C2_BlocksMatchUploads ==
    \A i \in Inv :
        art[i].calls > 0 =>
            \A s \in Slots :
                /\ (BodySlot(art[i].body, s) # NoBlock) <=> Resolved(up[i][s])
                /\ Resolved(up[i][s]) =>
                       BodySlot(art[i].body, s) = [img |-> up[i][s].result]
                /\ (Failed(up[i][s]) \/ up[i][s].err = "absent") =>
                       BodySlot(art[i].body, s) = NoBlock

C2_Witness ==
    \E i \in Inv :
        /\ art[i].calls > 0
        /\ Failed(up[i]["clean"])
        /\ Resolved(up[i]["logo"])
        /\ art[i].body.clean = NoBlock
        /\ art[i].body.logo # NoBlock

\* one upload of a two-image submission failed, the other resolved to a URL
OneFailed(i, s) ==
    /\ req[i] # NoReq
    /\ Truthy(req[i].body.imageClean_b64)
    /\ Truthy(req[i].body.imageLogo_b64)
    /\ Failed(up[i][s])
    /\ Resolved(up[i][Other(s)])

\* C3: when both images are supplied and exactly one upload fails while the
\* other resolves to a URL, the article-creation call is still made, with a body
\* that uses the URL of the successful upload and has no block for the failed
\* one; and when that call succeeds the response is 200 ok:true with the failed
\* slot null in files and the other slot holding the URL.
C3_OneUploadFails ==
    \A i \in Inv : \A s \in Slots :
        OneFailed(i, s) =>
            /\ pc[i] = "uploading" => ENABLED CreateArticle(i)
            /\ pc[i] # "uploading" =>
                /\ art[i].calls = 1
                /\ BodySlot(art[i].body, Other(s)) = [img |-> up[i][Other(s)].result]
                /\ BodySlot(art[i].body, s) = NoBlock
            /\ (pc[i] = "done" /\ art[i].outcome = "ok") =>
                /\ Len(resp[i]) = 1
                /\ Reply(i).status = 200
                /\ Reply(i).ok = TRUE
                /\ FilesSlot(Reply(i), s) = Null
                /\ FilesSlot(Reply(i), Other(s)) = up[i][Other(s)].result

C3_Witness ==
    \E i \in Inv :
        /\ OneFailed(i, "clean")
        /\ up[i]["clean"].err = "network"
        /\ up[i]["logo"].lists > 0
        /\ pc[i] = "done"
        /\ Sent(i)
        /\ Reply(i).status = 200
        /\ Reply(i).files.cleanUrl = Null
        /\ Reply(i).files.logoUrl # Null

\* C4: if the file-creation call succeeded and a poll's listing holds an entry
\* that matches the filename and has a url, the upload returns a URL after
\* exactly that many listing calls; an upload makes at most 10 listing calls.
C4_PollFindsListedUrl ==
    \A i \in Inv : \A s \in Slots :
        /\ up[i][s].lists <= MaxPolls
        /\ (up[i][s].rok /\ up[i][s].held) =>
            /\ Resolved(up[i][s])
            /\ up[i][s].lists = up[i][s].polls

\* C5: an upload whose creation call succeeded without a URL and whose polls
\* found none ends, after the 10th poll, with the upload-timeout error and a null
\* result; no upload polls more than 10 times, and an upload that has made its
\* 10th poll has settled.
C5_PollingTimesOut ==
    \A i \in Inv : \A s \in Slots :
        LET u == up[i][s]
        IN  /\ u.polls <= MaxPolls
            /\ u.lists <= MaxPolls
            /\ u.polls = MaxPolls => u.pc = "settled"
            /\ (u.pc = "settled" /\ u.rok /\ u.url = Null /\ u.err # "network") =>
                /\ u.err = "timeout"
                /\ u.result = Null
                /\ u.polls = MaxPolls
                /\ u.lists = MaxPolls

C5_Witness ==
    \E i \in Inv : \E s \in Slots :
        /\ up[i][s].pc = "settled"
        /\ up[i][s].rok
        /\ up[i][s].err = "timeout"
        /\ up[i][s].lists = MaxPolls
        /\ ~up[i][s].held

\* the article the platform stored for invocation i
Stored(i) == {a \in articles : a.owner = i}

\* C6: once the article-creation call has succeeded, the response is 200 with
\* ok:true and the article id the platform returned, whatever the metafield
\* write did (success, non-success status, thrown network error).
C6_MetafieldNeverFails ==
    \A i \in Inv :
        (art[i].outcome = "ok" /\ pc[i] = "done") =>
            /\ Len(resp[i]) = 1
            /\ Reply(i).status = 200
            /\ Reply(i).ok = TRUE
            /\ Reply(i).articleId = art[i].articleId
            /\ meta[i].calls > 0 =>
                \E a \in Stored(i) : Reply(i).articleId = [id |-> a.id]

C6_Witness ==
    \E i \in Inv :
        /\ art[i].outcome = "ok"
        /\ meta[i].outcome = "threw"
        /\ pc[i] = "done"
        /\ Reply(i).status = 200
        /\ Reply(i).ok = TRUE

\* C7: when the article-creation call returns a non-success status, the
\* response is 500 with ok:false and carries the upstream error detail.
C7_ArticleFailureDetail ==
    \A i \in Inv :
        (art[i].outcome = "failed" /\ pc[i] = "done") =>
            /\ Len(resp[i]) = 1
            /\ Reply(i).status = 500
            /\ Reply(i).ok = FALSE
            /\ Has(Reply(i), "detail")

\* C8: the metafield write is attempted at most once per invocation, only after
\* the article-creation call returned a success status with an article id and
\* only when the request carried a submitter email; never when article creation
\* returned a non-success status or threw.
C8_MetafieldGuard ==
    \A i \in Inv :
        /\ meta[i].calls <= 1
        /\ meta[i].calls = 1 =>
            /\ art[i].outcome = "ok"
            /\ art[i].articleId # Undefined
            /\ Truthy(req[i].body.submitterEmail)
            /\ meta[i].value = req[i].body.submitterEmail
        /\ art[i].outcome \in {"none", "inflight", "failed", "threw"} => meta[i].calls = 0

C8_Witness ==
    \E i \in Inv :
        /\ meta[i].calls = 1
        /\ pc[i] = "metafield"
        /\ art[i].outcome = "ok"

\* C9: the article-creation call is issued only after both uploads have settled:
\* once it has been issued, no file-creation or file-listing call of the
\* invocation is in flight or still to come.
C9_ArticleAfterUploads ==
    \A i \in Inv :
        art[i].calls > 0 =>
            \A s \in Slots : up[i][s].pc = "settled"

C9_Witness ==
    \E i \in Inv :
        /\ art[i].calls = 1
        /\ pc[i] = "article"
        /\ Resolved(up[i]["clean"])
        /\ up[i]["clean"].lists > 1
        /\ up[i]["logo"].pc = "settled"
        /\ up[i]["logo"].lists > 1

\* invocation i has answered 200 with ok:true
Succeeded(i) ==
    /\ pc[i] = "done"
    /\ Sent(i)
    /\ Has(Reply(i), "ok")
    /\ Reply(i).ok = TRUE
    /\ Reply(i).status = 200

\* the file a URL points to belongs to invocation i
Owns(i, url) == \E f \in files : f.id = url.file /\ f.owner = i

\* C10: of two invocations with the same payload, each returns and embeds only
\* URLs of files it created itself, and the two responses name different files
\* and different articles.
C10_NoSharedFiles ==
    \A i \in Inv : \A s \in Slots :
        /\ up[i][s].result # Null => Owns(i, up[i][s].result)
        /\ (art[i].calls > 0 /\ BodySlot(art[i].body, s) # NoBlock) =>
               Owns(i, BodySlot(art[i].body, s).img)
        /\ \A j \in Inv \ {i} :
            (Succeeded(i) /\ Succeeded(j)) =>
                /\ FilesSlot(Reply(i), s) # Null =>
                       FilesSlot(Reply(i), s) # FilesSlot(Reply(j), s)
                /\ Reply(i).articleId # Undefined =>
                       Reply(i).articleId # Reply(j).articleId

\* C14: when the file-storage API answers the file-creation call of a supplied
\* image with a non-success status, the request is answered with a 5xx status
\* and ok:false, not with 200 ok:true.
C14_StorageFailureSurfaced ==
    \A i \in Inv :
        (pc[i] = "done" /\ \E s \in Slots : up[i][s].err = "rejected") =>
            /\ Reply(i).status >= 500
            /\ Reply(i).ok = FALSE

\* C15: an invocation issues the file-creation POST at most once for each
\* supplied image (never for an absent one) and the article-creation POST at
\* most once, whatever the platform answers.
C15_NoWriteRetried ==
    \A i \in Inv :
        /\ art[i].calls <= 1
        /\ \A s \in Slots :
            up[i][s].creates <=
                (IF req[i] # NoReq /\ Truthy(Image(req[i].body, s)) THEN 1 ELSE 0)

C15_Witness ==
    \E i \in Inv :
        /\ pc[i] = "done"
        /\ up[i]["clean"].creates = 1
        /\ up[i]["clean"].err = "rejected"
        /\ up[i]["logo"].creates = 1
        /\ up[i]["logo"].err = "network"
        /\ art[i].calls = 1
        /\ art[i].outcome = "failed"

\* ---------------------------------------------- claims: the other handlers
RunReply == run.resp[1]

\* C11: in part_003 and part_004, when one upload has failed and the other
\* has returned a URL, the article is created and shows the uploaded image.
C11_OtherUploadUsed ==
    (run # Idle /\ run.handler \in {"part_003", "part_004"}) =>
        \A s \in Slots :
            (/\ run.pc = "done"
             /\ run.up[s].pc = "failed"
             /\ run.up[Other(s)].pc = "settled"
             /\ run.up[Other(s)].result # Null) =>
                /\ run.art.calls = 1
                /\ BodySlot(run.art.body, Other(s)) = [img |-> run.up[Other(s)].result]

\* the k-th request of a staged upload, given what the upload knows after
\* issuing it
StagedStep(k, call, u) ==
    CASE k = 1 -> call = "stagedUploadsCreate"
      [] k = 2 -> call = "POST staged target" /\ u.target
      [] k = 3 -> call = "fileCreate" /\ u.target /\ u.stored
      [] OTHER -> call = "files query" /\ u.target /\ u.stored

\* C12: a staged upload issues stagedUploadsCreate, then the multipart POST
\* to the staged target, then fileCreate (then lookups by filename), each
\* only after the step before it succeeded; a failed upload issues nothing
\* more.
C12_StagedOrder ==
    [][(run # Idle /\ run.handler \in Staged) =>
          \A s \in Slots :
              LET c == run.up[s].calls
                  d == run'.up[s].calls
              IN  \/ d = c
                  \/ /\ run.up[s].pc # "failed"
                     /\ Len(d) = Len(c) + 1
                     /\ SubSeq(d, 1, Len(c)) = c
                     /\ StagedStep(Len(d), d[Len(d)], run'.up[s])]_vars

C12_Witness ==
    /\ run # Idle
    /\ run.handler = "part_007"
    /\ run.pc = "done"
    /\ run.up["clean"].pc = "settled"
    /\ Len(run.up["clean"].calls) >= 5
    /\ run.up["logo"].pc = "failed"
    /\ run.up["logo"].calls = <<"stagedUploadsCreate", "POST staged target">>
    /\ ~run.up["logo"].stored

\* a preflight answer: 200 or 204 and no body
NoBody(r) == r.status \in {200, 204} /\ DOMAIN r = {"status"}
\* the 405 answer
NotAllowed(r) == r.status = 405 /\ Has(r, "ok") /\ r.ok = FALSE

\* C13: the first handler of src/api/submit.js, email-image.js and
\* email-design.js answer a request whose method is not POST with 405 and
\* ok:false, OPTIONS with 200 or 204 and no body, once, and make no call to
\* the platform or the email API for it, whatever the body and the
\* configuration.
C13_NonPostRefused ==
    /\ \A i \in Inv :
        (req[i] # NoReq /\ req[i].method # "POST") =>
            /\ PlatformCalls(i) = 0
            /\ pc[i] \in {"start", "done"}
            /\ pc[i] = "done" =>
                /\ Len(resp[i]) = 1
                /\ IF req[i].method = "OPTIONS" THEN NoBody(Reply(i))
                   ELSE NotAllowed(Reply(i))
    /\ (run # Idle /\ run.handler \in EmailHandlers /\ run.req.method # "POST") =>
            /\ run.mail = 0
            /\ run.pc \in {"start", "done"}
            /\ run.pc = "done" =>
                /\ Len(run.resp) = 1
                /\ IF run.req.method = "OPTIONS" THEN NoBody(RunReply)
                   ELSE NotAllowed(RunReply)

C13_Witness ==
    /\ run # Idle
    /\ run.handler = "email_image"
    /\ run.req.method = "GET"
    /\ ~run.req.configured
    /\ Truthy(run.req.body.email)
    /\ run.pc = "done"
    /\ RunReply.status = 405

\* a payload that is empty or, once the data-URI prefix and the whitespace
\* are gone, shorter than the minimum length
Implausible(b64) == ~Truthy(b64) \/ TooShort(b64)

\* C16: uploadFile of the first handler and uploadToFiles of part_003 return
\* null for an empty or too short payload without making any network call.
C16_ShortPayloadSkipped ==
    /\ \A i \in Inv : \A s \in Slots :
        (req[i] # NoReq /\ Implausible(Image(req[i].body, s))) =>
            /\ up[i][s].creates = 0
            /\ up[i][s].lists = 0
            /\ up[i][s].pc = "settled" => up[i][s].result = Null
    /\ (run # Idle /\ run.handler = "part_003") =>
        \A s \in Slots :
            Implausible(Image(run.req.body, s)) =>
                /\ run.up[s].calls = <<>>
                /\ run.up[s].pc \in {"unstarted", "settled"}
                /\ run.up[s].result = Null

\* the characters that open or close markup
Markup == {"<", ">"}
Plain(text) == Chars(text) \cap Markup = {}

\* C17: in the article body the first handler and the second handler
\* (buildArticleHTML) of src/api/submit.js send to the platform, the
\* nickname and the color names carry no character of markup.
C17_BodyEscaped ==
    /\ \A i \in Inv : art[i].body # Null => Plain(art[i].body.nickname)
    /\ (run # Idle /\ run.handler = "second" /\ run.art.body # Null) =>
            /\ Plain(run.art.body.nickname)
            /\ run.art.body.counts # NoBlock =>
                \A k \in 1..Len(run.art.body.counts.list) :
                    Plain(run.art.body.counts.list[k].color)

\* the entities that stand for the five reserved characters
Entities ==
    {<<"&", "a", "m", "p", ";">>, <<"&", "l", "t", ";">>, <<"&", "g", "t", ";">>,
     <<"&", "q", "u", "o", "t", ";">>, <<"&", "#", "3", "9", ";">>,
     <<"&", "#", "x", "2", "7", ";">>, <<"&", "a", "p", "o", "s", ";">>}
EntityAt(text, k) ==
    \E e \in Entities :
        k + Len(e) - 1 <= Len(text) /\ SubSeq(text, k, k + Len(e) - 1) = e

\* C18: the output of esc holds none of < > " ' and no & that does not
\* start an entity, for every input.
C18_EscFiveCharacters ==
    (run # Idle /\ run.handler = "esc" /\ run.pc = "output") =>
        /\ Chars(run.output) \cap {"<", ">", "\"", "'"} = {}
        /\ \A k \in 1..Len(run.output) :
              run.output[k] = "&" => EntityAt(run.output, k)

\* C19: the article body of part_007 and of buildArticleHTML holds the
\* breakdown list only when brickCounts is a non-empty mapping, and the
\* entries of the list stand in non-increasing order of count.
C19_BreakdownSorted ==
    (/\ run # Idle
     /\ run.handler \in {"part_007", "second"}
     /\ run.art.body # Null
     /\ run.art.body.counts # NoBlock) =>
        LET list == run.art.body.counts.list
        IN  /\ IsMap(run.req.body.brickCounts)
            /\ run.req.body.brickCounts.map # <<>>
            /\ \A k \in 1..(Len(list) - 1) : list[k].count >= list[k + 1].count

\* the canonical URL the handles of the platform's answer give
Canonical(handle, blogHandle) ==
    IF handle = Undefined \/ blogHandle = Undefined THEN Null
    ELSE Str(Https \o StoreDomain \o BlogsPath \o blogHandle.str \o <<"/">>
             \o handle.str)
\* the canonical URL of an answer that carries the two handles
CanonicalOfBoth ==
    CHOOSE u \in {Canonical(h, g) : h \in HandleVals, g \in BlogHandleVals} : u # Null

\* C20: in a success response of the first and of the third handler of
\* src/api/submit.js the canonical URL is null when the platform's article
\* answer lacks the article handle or the blog handle, and otherwise is
\* https://<store domain>/blogs/<blog handle>/<article handle>.
C20_CanonicalUrl ==
    /\ \A i \in Inv :
        (pc[i] = "done" /\ Succeeded(i)) =>
            Reply(i).articleUrl =
                (IF art[i].bothHandles THEN CanonicalOfBoth ELSE Null)
    /\ (/\ run # Idle
        /\ run.handler = "third"
        /\ run.pc = "done"
        /\ RunReply.status = 200) =>
            RunReply.storefrontUrl = Canonical(run.art.handle, run.art.blogHandle)

C20_Witness ==
    /\ run # Idle
    /\ run.handler = "third"
    /\ run.pc = "done"
    /\ RunReply.status = 200
    /\ run.art.handle # Undefined
    /\ run.art.blogHandle = Undefined
    /\ RunReply.storefrontUrl = Null

\* the handlers under src/api that live in run
ApiHandlers == {"second", "third", "email_image", "email_design"}

\* the envelope of a response body
Envelope(r) ==
    IF ~Has(r, "ok") THEN FALSE
    ELSE /\ r.ok \in BOOLEAN
         /\ (r.ok = FALSE) <=> (r.status \in 400..599)
         /\ (r.ok = FALSE) => Has(r, "error")
         /\ (r.ok = TRUE) <=> (r.status = 200)

\* C21: every response body the handlers under src/api send for a request
\* other than OPTIONS carries a boolean ok; ok is false exactly when the
\* status is 4xx or 5xx, and then an error string is present; ok is true
\* exactly when the status is 200.
C21_UniformEnvelope ==
    /\ \A i \in Inv :
         (req[i] # NoReq /\ req[i].method # "OPTIONS")
            => \A k \in 1..Len(resp[i]) : Envelope(resp[i][k])
    /\ (run # Idle /\ run.handler \in ApiHandlers /\ run.req.method # "OPTIONS")
            => \A k \in 1..Len(run.resp) : Envelope(run.resp[k])

\* the email API has refused the send of email-design.js and the handler
\* has answered 502
C21_Witness ==
    /\ run # Idle
    /\ run.handler = "email_design"
    /\ run.pc = "done"
    /\ run.upstream = "refused"
    /\ RunReply.status = 502
    /\ RunReply.ok = FALSE

\* C22: when a required configuration value is absent (first handler of
\* src/api/submit.js, src/api/email-image.js), no request of any method is
\* answered by normal request processing (the only answer is the
\* configuration failure) and no upstream call is made.
C22_FailFast ==
    /\ \A i \in Inv :
         (req[i] # NoReq /\ ~EnvComplete)
            => /\ \A k \in 1..Len(resp[i]) : resp[i][k].status = 500
               /\ PlatformCalls(i) = 0
    /\ (run # Idle /\ run.handler = "email_image" /\ ~run.req.configured)
            => /\ \A k \in 1..Len(run.resp) : run.resp[k].status = 500
               /\ run.mail = 0

\* C23: in src/api/email-image.js a body whose accumulated length exceeds
\* 2*1024*1024 is answered 413 with ok:false as soon as the limit is
\* crossed, before any JSON parsing, and no call to the email API is made;
\* a body within the limit is not answered 413.
C23_SizeGuard ==
    (run # Idle /\ run.handler = "email_image")
        => /\ (run.rawBody > MaxBody)
                => /\ run.pc = "done"
                   /\ Len(run.resp) = 1
                   /\ RunReply.status = 413
                   /\ RunReply.ok = FALSE
                   /\ run.rawBody - run.req.body.chunks[run.read] <= MaxBody
                   /\ ~run.parsed
                   /\ run.mail = 0
           /\ (run.resp # <<>> /\ RunReply.status = 413)
                => run.rawBody > MaxBody

\* the third chunk has taken the body one character past the limit
C23_Witness ==
    /\ run # Idle
    /\ run.handler = "email_image"
    /\ run.read = 3
    /\ run.rawBody = MaxBody + 1
    /\ run.pc = "done"
    /\ RunReply.status = 413

\* C24: in the notifier endpoints the email API is called at most once per
\* invocation, and a non-success response from it is answered with a 5xx
\* response with ok:false.
C24_SendOnceAndSurface ==
    (run # Idle /\ run.handler \in EmailHandlers)
        => /\ run.mail <= 1
           /\ (run.upstream = "refused")
                => /\ run.pc = "done"
                   /\ Len(run.resp) = 1
                   /\ RunReply.status \in 500..599
                   /\ RunReply.ok = FALSE

\* the email API has refused the send of email-image.js
C24_Witness ==
    /\ run # Idle
    /\ run.handler = "email_image"
    /\ run.mail = 1
    /\ run.upstream = "refused"
    /\ run.pc = "done"

\* C25: in the second handler of src/api/submit.js a POST that is missing
\* both image fields is answered 400 without any upstream call (no
\* fileCreate, no article creation).
C25_NoImagesRejected ==
    (/\ run # Idle
     /\ run.handler = "second"
     /\ run.req.method = "POST"
     /\ ~run.req.body.badJson
     /\ ~Truthy(run.req.body.imageClean_b64)
     /\ ~Truthy(run.req.body.imageLogo_b64))
        => /\ \A s \in Slots : run.up[s].calls = <<>>
           /\ run.art.calls = 0
           /\ (run.pc = "done") => RunReply.status = 400

\* C26: in uploadFile of the first handler, when the file-creation call
\* has answered with a non-success status the upload fails with the
\* rejection without any listing and never returns a URL; the failure
\* "no URL after polling" arises only when the creation call succeeded and
\* the polling window was exhausted.
C26_RejectionDistinct ==
    \A i \in Inv : \A s \in Slots :
        LET u == up[i][s]
        IN  /\ (u.creates = 1 /\ u.pc # "creating" /\ ~u.rok)
                => /\ u.lists = 0
                   /\ u.result = Null
                   /\ (u.pc = "settled") => u.err \in {"rejected", "network"}
            /\ (u.err = "timeout") => (u.rok /\ u.polls = MaxPolls)

\* C27: in the /publish endpoint of src/unnamed/part_001 a response with
\* status 200 and ok:true is sent only if the article-creation call
\* returned a success status.
C27_PublishFailureSurfaced ==
    (/\ run # Idle
     /\ run.handler = "publish"
     /\ run.resp # <<>>
     /\ RunReply.status = 200
     /\ RunReply.ok = TRUE)
        => run.art.outcome = "ok"

\* the same request without the contact email
Anonymised(body) ==
    IF "submitterEmail" \in DOMAIN body
    THEN [body EXCEPT !.submitterEmail = Undefined]
    ELSE [body EXCEPT !.email = Undefined]

\* C28: the contact email is private: the article payload, the upload
\* filenames and the response are those of the same request without the
\* email (first handler of src/api/submit.js, src/unnamed/part_004); the
\* email is not written into the article.
C28_EmailPrivate ==
    /\ \A i \in Inv :
         (req[i] # NoReq /\ art[i].calls > 0)
            => /\ art[i].body = BodyHtml(Anonymised(req[i].body).nickname,
                                         up[i]["clean"].result,
                                         up[i]["logo"].result)
               /\ ~Includes(art[i].body.nickname, Mail1)
               /\ \A s \in Slots :
                    FileName(req[i].body, s) = FileName(Anonymised(req[i].body), s)
    /\ (run # Idle /\ run.handler = "part_004" /\ run.art.calls > 0)
            => /\ run.art.body = Compose("part_004", Anonymised(run.req.body),
                                         run.up["clean"].result,
                                         run.up["logo"].result)
               /\ ~Includes(run.art.body.email, Mail1)

\* C29: every invocation of the first handler of src/api/submit.js and of
\* src/api/email-image.js sends exactly one response before it completes,
\* never zero and never two.
C29_ExactlyOneResponse ==
    /\ \A i \in Inv :
         (req[i] # NoReq)
            => /\ Len(resp[i]) <= 1
               /\ (pc[i] \in {"done", "crashed"}) => Len(resp[i]) = 1
    /\ (run # Idle /\ run.handler = "email_image")
            => /\ Len(run.resp) <= 1
               /\ (run.pc \in {"done", "crashed"}) => Len(run.resp) = 1

\* the whole body has come in within the limit and JSON.parse accepts it
Obtained(r) ==
    /\ r.read = Len(r.req.body.chunks)
    /\ r.rawBody <= MaxBody
    /\ ~r.req.body.badJson

\* C30: in the notifier endpoints the email API is called only if the
\* method is POST, the API key is configured, the body was obtained and
\* parsed and both the recipient email and the attachment are present; a
\* POST missing either field is answered 400 with ok:false and no call.
C30_SendGuard ==
    (run # Idle /\ run.handler \in EmailHandlers)
        => /\ (run.mail > 0)
                => /\ run.req.method = "POST"
                   /\ run.req.configured
                   /\ Obtained(run)
                   /\ Truthy(run.req.body.email)
                   /\ Truthy(run.req.body.attachment)
           /\ (/\ run.pc = "done"
               /\ run.req.method = "POST"
               /\ run.req.configured
               /\ Obtained(run)
               /\ (~Truthy(run.req.body.email) \/ ~Truthy(run.req.body.attachment)))
                => /\ RunReply.status = 400
                   /\ RunReply.ok = FALSE
                   /\ run.mail = 0

\* email-image.js has read a body of two chunks that names the recipient
\* but holds no attachment, and has answered 400
C30_Witness ==
    /\ run # Idle
    /\ run.handler = "email_image"
    /\ run.req.method = "POST"
    /\ run.read = 2
    /\ Obtained(run)
    /\ Truthy(run.req.body.email)
    /\ ~Truthy(run.req.body.attachment)
    /\ run.pc = "done"
    /\ RunReply.status = 400
    /\ run.mail = 0
====
